---- MODULE Spec2Model ----
(***************************************************************************)
(* A model of smarc_bt/src/mission_plan.py: the MissionPlan container, its *)
(* construction (service probing, plan-database decoding, dubins           *)
(* densification) and its sequential progress tracker.                     *)
(***************************************************************************)
EXTENDS Integers, Sequences, FiniteSets, TLC

\* ------------------------------------------------------------------------
\* Bounds
\* ------------------------------------------------------------------------
MaxWps == 3
\* calls made on one plan: enough for a query, MaxWps visits and two more calls
MaxOps == MaxWps + 3
MaxMans == 2        \* maneuvers in one plan-database message
MaxCoverPts == 2    \* points the coverage generator returns
MaxMission == 2     \* waypoints of a mission-control mission
SegLen == 3         \* samples dubins_traj returns for one segment
MaxCoord == 2       \* planar coordinates of the waypoints compared
MaxPoses == 2       \* poses of a path message

\* dubins_mission_planner(mission, turn_radius=10, num_points=2)
NumPoints == 2

\* Python's None, and the outcomes of a call that raises
None == "None"
IndexError == "IndexError"

VARIABLES
    waypoints,          \* self.waypoints
    current_wp_index,   \* self.current_wp_index
    history,            \* the calls made on the plan so far, with their results
    pc,                 \* where the construction of the current plan stands
    plandb,             \* plandb_msg.plan_spec.maneuvers of the current plan
    cov_known,          \* coverage_swath and vehicle_localization_error_growth given
    no_service,         \* self.no_service
    latlontoutm_service_name, \* self.latlontoutm_service_name
    waypoint_man_ids,   \* self.waypoint_man_ids
    man_i,              \* read_plandb: the maneuver the loop is at
    local_wps,          \* read_plandb: its local list `waypoints`
    log,                \* read_plandb: what each maneuver visited so far did
    exc,                \* the exception that ended the last operation, or None
    init_probe,         \* the outcomes of the probes made by __init__
    probed,             \* the wait_for_service calls made by the last step
    resolutions,        \* constructions of this process that probed: 0, 1, 2 = more
    conv_ret,           \* the last direct latlon_to_utm / utm_to_latlon call
    dpc,                \* where dubins_mission_planner stands
    d_path,             \* dubins_mission_planner: path, the samples of each segment
    d_seg,              \* the segment the selection loop is at
    d_sel,              \* dubins_waypoints
    d_order,            \* order_idxs
    d_out,              \* dubins_mission.waypoints: references to objects
    dwp,                \* the GotoWaypoint objects made, by reference
    sim_pc,             \* where the call of is_too_similar_to_other stands
    sim_self,           \* is_too_similar_to_other: self.wp
    sim_other,          \* is_too_similar_to_other: other_wp
    sim_ret,            \* what is_too_similar_to_other returned
    ptl_pc,             \* where the call of path_to_list stands
    plan_frame,         \* self.plan_frame
    path_msg,           \* path_to_list: path_msg
    ptl_ret             \* what path_to_list returned

trackerVars == <<current_wp_index, history>>
planVars == <<pc, plandb, cov_known, no_service, latlontoutm_service_name,
              waypoint_man_ids, man_i, local_wps, log, exc, init_probe, probed,
              resolutions, conv_ret>>
dubinsVars == <<dpc, d_path, d_seg, d_sel, d_order, d_out, dwp>>
callVars == <<sim_pc, sim_self, sim_other, sim_ret, ptl_pc, plan_frame, path_msg, ptl_ret>>
vars == <<waypoints, trackerVars, planVars, dubinsVars, callVars>>

\* ------------------------------------------------------------------------
\* Progress tracker
\* ------------------------------------------------------------------------
\* the plans handed to the tracker: N distinct waypoints, N in 0..MaxWps
WaypointLists == {[i \in 1..n |-> i] : n \in 0..MaxWps}

is_complete == current_wp_index >= Len(waypoints)

is_in_progress == current_wp_index < Len(waypoints) /\ current_wp_index >= 0

\* self.waypoints[i] of Python, i >= -1: a negative index counts from the end
Subscript(wps, i) ==
    IF i >= 0 /\ i < Len(wps) THEN wps[i + 1]
    ELSE IF i < 0 /\ -i <= Len(wps) THEN wps[Len(wps) + i + 1]
    ELSE IndexError

\* mutant: visit_wp without its is_complete() guard
visit_wp_index_unguarded == current_wp_index + 1

visit_wp_index == IF is_complete THEN current_wp_index ELSE current_wp_index + 1

visit_wp ==
    /\ Len(history) < MaxOps
    /\ current_wp_index' = visit_wp_index
    /\ history' = Append(history, [op |-> "visit_wp", at |-> current_wp_index,
                                   to |-> visit_wp_index, ret |-> None])
    /\ UNCHANGED <<callVars, waypoints, planVars, dubinsVars>>

\* mutant: get_current_wp without the lazy start at index -1
get_current_wp_index_no_start == current_wp_index

get_current_wp_index ==
    IF is_complete THEN current_wp_index
    ELSE IF current_wp_index = -1 THEN 0
    ELSE current_wp_index

get_current_wp_ret ==
    IF is_complete THEN None ELSE Subscript(waypoints, get_current_wp_index)

get_current_wp ==
    /\ Len(history) < MaxOps
    /\ current_wp_index' = get_current_wp_index
    /\ history' = Append(history, [op |-> "get_current_wp", at |-> current_wp_index,
                                   to |-> get_current_wp_index,
                                   ret |-> get_current_wp_ret])
    /\ UNCHANGED <<callVars, waypoints, planVars, dubinsVars>>

\* the other fields of a plan built from an explicit waypoint list
PlanIdle ==
    /\ pc = "ready"
    /\ plandb = <<>>
    /\ cov_known = FALSE
    /\ no_service = FALSE
    /\ latlontoutm_service_name = "LATLONTOUTM_SERVICE"
    /\ man_i = 1
    /\ local_wps = <<>>
    /\ log = <<>>
    /\ exc = None
    /\ init_probe = <<>>
    /\ probed = <<>>
    /\ resolutions = 0
    /\ conv_ret = <<>>

\* no waypoints are being compared and no path is being converted
CallsIdle ==
    /\ sim_pc = "idle"
    /\ sim_self = <<>>
    /\ sim_other = <<>>
    /\ sim_ret = FALSE
    /\ ptl_pc = "idle"
    /\ plan_frame = "utm"
    /\ path_msg = <<>>
    /\ ptl_ret = <<>>

\* no mission-control mission is being densified
DubinsIdle ==
    /\ dpc = "idle"
    /\ d_seg = 1
    /\ d_path = <<>>
    /\ d_sel = <<>>
    /\ d_order = <<>>
    /\ d_out = <<>>
    /\ dwp = <<>>

TrackerInit ==
    /\ waypoints \in WaypointLists
    /\ waypoint_man_ids = waypoints
    /\ current_wp_index = -1
    /\ history = <<>>
    /\ PlanIdle
    /\ DubinsIdle
    /\ CallsIdle

TrackerNext == visit_wp \/ get_current_wp

TrackerSpec == TrackerInit /\ [][TrackerNext]_vars

\* ------------------------------------------------------------------------
\* Construction from a plan-database message
\* ------------------------------------------------------------------------
Primary == "LATLONTOUTM_SERVICE"
Alternative == "LATLONTOUTM_SERVICE_ALTERNATIVE"

\* Coordinates are naturals; Python's None in a coordinate slot is written -1,
\* so NoneNone is the tuple (None, None).
NoneNone == <<-1, -1>>

\* a maneuver of the message: its kind (imc_enums.MANEUVER_GOTO, _SAMPLE,
\* _COVER_AREA; every other maneuver_imc_id is "other") and len(maneuver.polygon)
Maneuvers ==
    {[kind |-> k, nverts |-> 0] : k \in {"goto", "sample", "other"}}
        \cup {[kind |-> "cover_area", nverts |-> n] : n \in {2, 3}}
RECURSIVE SeqsUpTo(_, _)
SeqsUpTo(S, n) ==
    IF n = 0 THEN {<<>>}
    ELSE LET shorter == SeqsUpTo(S, n - 1)
         IN  shorter \cup {Append(q, x) : q \in {t \in shorter : Len(t) = n - 1}, x \in S}
Messages == SeqsUpTo(Maneuvers, MaxMans)

\* (maneuver.lat, maneuver.lon) of maneuver i (j = 0) and of its j-th polygon vertex
Geo(i, j) == <<i, j>>
\* the LatLonToUTM service, when it answers: res.utm_point.x, res.utm_point.y
LatLonToUTM(g) == <<10 * g[1] + g[2], 10 * g[2] + g[1]>>

\* What one latlon_to_utm call meets: the endpoint answers ("ok"),
\* wait_for_service times out ("timeout"), or rospy.ServiceProxy raises
\* ServiceException ("proxy_error"). A proxy, once made, is taken to answer.
Outcomes == {"ok", "timeout", "proxy_error"}

\* MissionPlan.__init__, lines 238-256: the probes of the two endpoints.
\* The logerr of line 255 formats two names that are defined nowhere, so the
\* handler raises NameError before line 256 sets no_service.
InitProbes(p_ok, a_ok) ==
    IF p_ok THEN <<[name |-> Primary, ok |-> TRUE]>>
    ELSE <<[name |-> Primary, ok |-> FALSE], [name |-> Alternative, ok |-> a_ok]>>

InitServiceName(p_ok) == IF p_ok THEN Primary ELSE Alternative

InitExc(p_ok, a_ok) == IF ~p_ok /\ ~a_ok THEN "NameError" ELSE None

InitNoService(p_ok, a_ok) == FALSE

\* _get_latlon_to_utm_service: "proxy" is the ServiceProxy; on a timeout it
\* returns the tuple (None, None), on a ServiceException it returns None
get_latlon_to_utm_service(out) ==
    IF out = "timeout" THEN "(None, None)"
    ELSE IF out = "proxy_error" THEN None
    ELSE "proxy"

\* mutant: latlon_to_utm reusing the endpoint resolved at construction
latlon_to_utm_cached(geo, out) ==
    [exc |-> None, ret |-> LatLonToUTM(geo), probes |-> <<>>]

\* latlon_to_utm(lat, lon, z, serv=None): the exception it raises or the pair
\* it returns, and the probe it made
latlon_to_utm(geo, out) ==
    LET serv == get_latlon_to_utm_service(out)
        probe == <<latlontoutm_service_name>>
    IN  IF serv = None
        THEN [exc |-> None, ret |-> NoneNone, probes |-> probe]
        ELSE IF serv = "(None, None)"
        THEN [exc |-> "TypeError", ret |-> NoneNone, probes |-> probe]
        ELSE [exc |-> None, ret |-> LatLonToUTM(geo), probes |-> probe]

\* utm_to_latlon(utm_x, utm_y, serv=None): self.utmtolatlon_service_name is
\* set nowhere (lines 259-272 are commented out), so the lookup raises
\* AttributeError in the try block and again in its handler (line 323)
utm_to_latlon(xy, out) ==
    [exc |-> "AttributeError", ret |-> NoneNone, probes |-> <<>>]

\* Waypoint.read_imc_maneuver: `man` stands for every field copied from the
\* maneuver (lat, lon, speed and z units and values)
ReadImcManeuver(i, name, xy, imc, extra) ==
    [man |-> i, name |-> name, pos |-> xy, imc_man_id |-> imc, extra |-> extra]

ManeuverName(i) == [base |-> "maneuver_name", man |-> i, k |-> 0, n |-> 0]
\* str(man_id) + "_{}/{}".format(i+1, len(coverage_points))
CoverName(i, k, n) == [base |-> "maneuver_id", man |-> i, k |-> k, n |-> n]

\* MissionPlan(auv_config, plandb_msg=msg, coverage_swath, error_growth)
Construct(msg, cov, p_ok, a_ok) ==
    /\ plandb' = msg
    /\ cov_known' = cov
    /\ no_service' = InitNoService(p_ok, a_ok)
    /\ latlontoutm_service_name' = InitServiceName(p_ok)
    /\ init_probe' = InitProbes(p_ok, a_ok)
    /\ probed' = [k \in 1..Len(InitProbes(p_ok, a_ok)) |-> InitProbes(p_ok, a_ok)[k].name]
    /\ resolutions' = IF resolutions = 0 THEN 1 ELSE 2
    /\ exc' = InitExc(p_ok, a_ok)
    /\ pc' = IF InitExc(p_ok, a_ok) # None THEN "raised" ELSE "read_plandb"
    \* read_plandb, lines 403-405: with no_service set it returns [] at once
    /\ man_i' = IF InitNoService(p_ok, a_ok) THEN Len(msg) + 1 ELSE 1
    /\ local_wps' = <<>>
    /\ log' = <<>>
    /\ waypoints' = <<>>
    /\ waypoint_man_ids' = <<>>
    /\ conv_ret' = <<>>
    /\ UNCHANGED <<callVars, trackerVars, dubinsVars>>

\* a caller constructs a plan from a plan-database message while the endpoints
\* answer (or not) the two probes
MissionPlan_init ==
    /\ pc = "idle"
    /\ \E msg \in Messages, cov \in BOOLEAN, p_ok \in BOOLEAN, a_ok \in BOOLEAN :
           Construct(msg, cov, p_ok, a_ok)

\* one pass of the loop of read_plandb ends: by an exception that leaves
\* __init__, or by going on to the next maneuver with `added` appended
LoopStep(e, added, entry, probes) ==
    /\ probed' = probes
    /\ exc' = e
    /\ log' = Append(log, entry)
    /\ IF e # None
       THEN /\ pc' = "raised"
            /\ UNCHANGED <<man_i, local_wps>>
       ELSE /\ pc' = "read_plandb"
            /\ man_i' = man_i + 1
            /\ local_wps' = local_wps \o added
    /\ UNCHANGED <<callVars, waypoints, trackerVars, dubinsVars, plandb, cov_known, no_service,
                   latlontoutm_service_name, waypoint_man_ids, init_probe,
                   resolutions, conv_ret>>

InLoop(kinds) ==
    /\ pc = "read_plandb"
    /\ man_i <= Len(plandb)
    /\ plandb[man_i].kind \in kinds

\* lines 426-445: the waypoints a goto or sample maneuver appends
GotoSampleAdded(r) ==
    IF r.ret[1] = NoneNone[1] THEN <<>>
    ELSE <<ReadImcManeuver(man_i, ManeuverName(man_i), r.ret, plandb[man_i].kind,
                           IF plandb[man_i].kind = "sample" THEN "syringes" ELSE "none")>>

read_goto_sample ==
    /\ InLoop({"goto", "sample"})
    /\ \E out \in Outcomes :
           LET r == latlon_to_utm(Geo(man_i, 0), out)
           IN  LoopStep(r.exc, GotoSampleAdded(r),
                        [anchor |-> out, gen |-> <<>>, skipped |-> FALSE,
                         from |-> Len(local_wps)],
                        r.probes)

\* line 467: [self.latlon_to_utm(polyvert...) for polyvert in maneuver.polygon],
\* from vertex j on; outs[j + 1] is what the conversion of vertex j meets
RECURSIVE ConvertVertices(_, _, _)
ConvertVertices(i, outs, j) ==
    IF j > plandb[i].nverts THEN [exc |-> None, pts |-> <<>>, probes |-> <<>>]
    ELSE LET r == latlon_to_utm(Geo(i, j), outs[j + 1])
         IN  IF r.exc # None THEN [exc |-> r.exc, pts |-> <<>>, probes |-> r.probes]
             ELSE LET rest == ConvertVertices(i, outs, j + 1)
                  IN  [exc |-> rest.exc, pts |-> <<r.ret>> \o rest.pts,
                       probes |-> r.probes \o rest.probes]

\* create_coverage_path(polygon, swath, error_growth): an ordered sequence of
\* planar points
CoveragePaths(polygon) == {[k \in 1..n |-> <<k, n>>] : n \in 0..MaxCoverPts}

\* mutant: the waypoints of a cover-area maneuver named from 0
CoverAdded_zero_based(i, points) ==
    [k \in 1..Len(points) |->
        ReadImcManeuver(i, CoverName(i, k - 1, Len(points)), points[k], "goto", "poly")]

\* lines 474-479: one waypoint per coverage point
CoverAdded(i, points) ==
    [k \in 1..Len(points) |->
        ReadImcManeuver(i, CoverName(i, k, Len(points)), points[k], "goto", "poly")]

\* lines 455-479, with the swath and the error growth known; outs has one
\* entry for the anchor and one per vertex
cover_area(outs) ==
    LET i == man_i
        entry == [anchor |-> outs[1], gen |-> <<>>, skipped |-> FALSE,
                  from |-> Len(local_wps)]
        anchor == latlon_to_utm(Geo(i, 0), outs[1])
        verts == ConvertVertices(i, outs, 1)
    IN  IF anchor.exc # None
        THEN LoopStep(anchor.exc, <<>>, entry, anchor.probes)
        ELSE IF plandb[i].nverts > 2
        THEN IF verts.exc # None
             THEN LoopStep(verts.exc, <<>>, entry, anchor.probes \o verts.probes)
             ELSE \E path \in CoveragePaths(<<anchor.ret>> \o verts.pts) :
                      LoopStep(None, CoverAdded(i, path), [entry EXCEPT !.gen = <<path>>],
                               anchor.probes \o verts.probes)
        ELSE LoopStep(None, CoverAdded(i, <<anchor.ret>>), entry, anchor.probes)

\* lines 449-479
read_cover_area ==
    /\ InLoop({"cover_area"})
    /\ IF ~cov_known
       THEN LoopStep(None, <<>>, [anchor |-> "unused", gen |-> <<>>, skipped |-> TRUE,
                                  from |-> Len(local_wps)], <<>>)
       ELSE \E outs \in [1..(plandb[man_i].nverts + 1) -> Outcomes] : cover_area(outs)

\* a decoder that stops at a maneuver of an unknown kind
read_unimplemented_breaks ==
    /\ InLoop({"other"})
    /\ man_i' = Len(plandb) + 1
    /\ log' = Append(log, [anchor |-> "unused", gen |-> <<>>, skipped |-> TRUE,
                           from |-> Len(local_wps)])
    /\ UNCHANGED <<callVars, waypoints, trackerVars, dubinsVars, pc, plandb, cov_known,
                   no_service, latlontoutm_service_name, waypoint_man_ids, local_wps,
                   exc, init_probe, probed, resolutions, conv_ret>>

\* lines 483-484
read_unimplemented ==
    /\ InLoop({"other"})
    /\ LoopStep(None, <<>>, [anchor |-> "unused", gen |-> <<>>, skipped |-> TRUE,
                             from |-> Len(local_wps)], <<>>)

\* read_plandb returns; __init__, lines 281 and 293-301
read_plandb_return ==
    /\ pc = "read_plandb"
    /\ man_i > Len(plandb)
    /\ waypoints' = local_wps
    /\ waypoint_man_ids' = [k \in 1..Len(local_wps) |-> local_wps[k].name]
    /\ current_wp_index' = -1
    /\ history' = <<>>
    /\ pc' = "ready"
    /\ probed' = <<>>
    /\ UNCHANGED <<callVars, plandb, cov_known, no_service, latlontoutm_service_name, man_i,
                   local_wps, log, exc, init_probe, resolutions, conv_ret, dubinsVars>>

\* a caller converts a point on the constructed plan, without a handle
Convert(fn, r, out) ==
    /\ conv_ret' = <<[fn |-> fn, out |-> out, exc |-> r.exc, ret |-> r.ret]>>
    /\ probed' = r.probes
    /\ UNCHANGED <<callVars, waypoints, trackerVars, dubinsVars, pc, plandb, cov_known, no_service,
                   latlontoutm_service_name, waypoint_man_ids, man_i, local_wps,
                   log, exc, init_probe, resolutions>>

call_latlon_to_utm ==
    /\ pc = "ready"
    /\ \E out \in Outcomes :
           Convert("latlon_to_utm", latlon_to_utm(Geo(0, 0), out), out)

call_utm_to_latlon ==
    /\ pc = "ready"
    /\ \E out \in Outcomes :
           Convert("utm_to_latlon", utm_to_latlon(LatLonToUTM(Geo(0, 0)), out), out)

\* the caller drops the plan (or the failed construction): the next
\* MissionPlan(...) is a fresh object, none of whose fields carry over
NewObject ==
    /\ pc \in {"ready", "raised"}
    /\ pc' = "idle"
    /\ waypoints' = <<>>
    /\ waypoint_man_ids' = <<>>
    /\ current_wp_index' = -1
    /\ history' = <<>>
    /\ plandb' = <<>>
    /\ cov_known' = FALSE
    /\ no_service' = FALSE
    /\ latlontoutm_service_name' = Primary
    /\ man_i' = 1
    /\ local_wps' = <<>>
    /\ log' = <<>>
    /\ exc' = None
    /\ init_probe' = <<>>
    /\ probed' = <<>>
    /\ conv_ret' = <<>>
    /\ UNCHANGED <<callVars, resolutions, dubinsVars>>

PlanInit ==
    /\ waypoints = <<>>
    /\ waypoint_man_ids = <<>>
    /\ current_wp_index = -1
    /\ history = <<>>
    /\ pc = "idle"
    /\ plandb = <<>>
    /\ cov_known = FALSE
    /\ no_service = FALSE
    /\ latlontoutm_service_name = Primary
    /\ man_i = 1
    /\ local_wps = <<>>
    /\ log = <<>>
    /\ exc = None
    /\ init_probe = <<>>
    /\ probed = <<>>
    /\ resolutions = 0
    /\ conv_ret = <<>>
    /\ DubinsIdle
    /\ CallsIdle

PlanNext ==
    \/ MissionPlan_init
    \/ read_goto_sample
    \/ read_cover_area
    \/ read_unimplemented
    \/ read_plandb_return
    \/ call_latlon_to_utm
    \/ call_utm_to_latlon
    \/ NewObject

PlanSpec == PlanInit /\ [][PlanNext]_vars

\* ------------------------------------------------------------------------
\* dubins_mission_planner: the densified mission-control mission
\* ------------------------------------------------------------------------
\* Heading values of the samples
Headings == {0, 1}

Abs(x) == IF x < 0 THEN -x ELSE x

\* dubins_traj(param, 1), segment j of the path (from waypoints_yaw[j-1] to
\* waypoints_yaw[j]): its k-th sample is at this position. The first sample is
\* the segment's start; the last is the segment's end when the sampling closes
\* the segment (ends_on_wp), and a point short of it otherwise.
SamplePos(j, k, closes) ==
    IF k = 1 THEN 100 * j
    ELSE IF closes /\ k = SegLen THEN 100 * (j + 1)
    ELSE 100 * j + k - 1

\* position of waypoints_yaw[i], i from 0 (the vehicle); the mission's
\* waypoints are waypoints_yaw[1..]
WpPos(i) == 100 * (i + 1)

\* the paths the curve primitives may return for given headings psi[j][k]
PathOf(psi, closes) ==
    [j \in 1..Len(psi) |->
        [k \in 1..SegLen |-> <<SamplePos(j, k, closes), psi[j][k]>>]]

\* lines 609-610: abs(np.diff(el[:, 2])); `[0] + delta_angles` adds 0 to every
\* element of the array (it does not prepend), so delta d belongs to sample d
DeltaAngles(el) == [d \in 1..(Len(el) - 1) |-> Abs(el[d + 1][2] - el[d][2])]

\* line 611: the index sets np.argpartition(delta_angles, -num_points) may put
\* last: num_points indices none of which has a smaller delta than one left out
MaxIdxs(el) ==
    LET delta == DeltaAngles(el)
        D == 1..Len(delta)
    IN  {T \in SUBSET D :
            /\ Cardinality(T) = NumPoints
            /\ \A a \in T, b \in D \ T : delta[a] >= delta[b]}

\* np.sort of a set of indices, as a sequence
RECURSIVE SortedSeq(_)
SortedSeq(T) ==
    IF T = {} THEN <<>>
    ELSE LET m == CHOOSE x \in T : \A y \in T : x <= y
         IN  <<m>> \o SortedSeq(T \ {m})

\* line 606: int(len(el)/2), as a 1-based index
MidIndex(el) == (Len(el) \div 2) + 1

\* lines 605-614: what one segment appends to dubins_waypoints
Selected(el, T) ==
    <<el[1], el[MidIndex(el)]>> \o [n \in 1..Cardinality(T) |-> el[SortedSeq(T)[n]]]

\* lines 619-621
RECURSIVE Concat(_, _)
Concat(path, j) == IF j > Len(path) THEN <<>> ELSE path[j] \o Concat(path, j + 1)
FullPath(path) == Concat(path, 1)

\* list.index: the first position holding an equal value
IndexOf(full, v) == CHOOSE n \in 1..Len(full) : full[n] = v /\ \A m \in 1..(n - 1) : full[m] # v

\* np.sort of a sequence of numbers (insertion into a sorted sequence)
RECURSIVE Insert(_, _)
Insert(q, x) ==
    IF q = <<>> THEN <<x>>
    ELSE IF x <= Head(q) THEN <<x>> \o q
    ELSE <<Head(q)>> \o Insert(Tail(q), x)
RECURSIVE NpSort(_)
NpSort(q) == IF q = <<>> THEN <<>> ELSE Insert(NpSort(Tail(q)), Head(q))

\* lines 622-624
OrderIdxs(full, sel) == NpSort([n \in 1..Len(sel) |-> IndexOf(full, sel[n])])

dubins_select ==
    /\ dpc = "select"
    /\ d_seg <= Len(d_path)
    /\ \E T \in MaxIdxs(d_path[d_seg]) :
           d_sel' = d_sel \o Selected(d_path[d_seg], T)
    /\ d_seg' = d_seg + 1
    /\ UNCHANGED <<callVars, dpc, d_path, d_order, d_out, dwp, waypoints, trackerVars, planVars>>

\* lines 616-625
dubins_sort ==
    /\ dpc = "select"
    /\ d_seg > Len(d_path)
    /\ d_order' = OrderIdxs(FullPath(d_path), d_sel)
    /\ d_sel' = [n \in 1..Len(d_sel) |-> FullPath(d_path)[OrderIdxs(FullPath(d_path), d_sel)[n]]]
    /\ dpc' = "materialize"
    /\ UNCHANGED <<callVars, d_seg, d_path, d_out, dwp, waypoints, trackerVars, planVars>>

\* lines 634-655: the object appended for the n-th sample is the one dwp made
\* before the loop
MaterializedRef(n) == 1

\* lines 635-655, one pass: dwp is overwritten and appended once more
dubins_materialize ==
    /\ dpc = "materialize"
    /\ Len(d_out) < Len(d_sel)
    /\ LET n == Len(d_out) + 1
           ref == MaterializedRef(n)
       IN  /\ dwp' = [r \in DOMAIN dwp \cup {ref} |->
                         IF r = ref
                         THEN [pos |-> d_sel[n][1], psi |-> d_sel[n][2], attrs |-> 1]
                         ELSE dwp[r]]
           /\ d_out' = Append(d_out, ref)
    /\ UNCHANGED <<callVars, dpc, d_seg, d_path, d_sel, d_order, waypoints, trackerVars, planVars>>

\* line 658
dubins_return ==
    /\ dpc = "materialize"
    /\ Len(d_out) = Len(d_sel)
    /\ dpc' = "done"
    /\ UNCHANGED <<callVars, d_seg, d_path, d_sel, d_order, d_out, dwp, waypoints, trackerVars, planVars>>

\* dubins_mission.waypoints, as the caller reads it
MissionWaypoints == [n \in 1..Len(d_out) |-> dwp[d_out[n]]]

\* a mission of 2..MaxMission waypoints, the vehicle in front of it
DubinsInit ==
    /\ \E m \in 2..MaxMission, closes \in BOOLEAN :
           \E psi \in [1..m -> [1..SegLen -> Headings]] :
               /\ closes => \A j \in 1..(m - 1) : psi[j][SegLen] = psi[j + 1][1]
               /\ d_path = PathOf(psi, closes)
    /\ dpc = "select"
    /\ d_seg = 1
    /\ d_sel = <<>>
    /\ d_order = <<>>
    /\ d_out = <<>>
    /\ dwp = <<>>
    /\ waypoints = <<>>
    /\ waypoint_man_ids = <<>>
    /\ current_wp_index = -1
    /\ history = <<>>
    /\ PlanIdle
    /\ CallsIdle

DubinsNext == dubins_select \/ dubins_sort \/ dubins_materialize \/ dubins_return

DubinsSpec == DubinsInit /\ [][DubinsNext]_vars

\* ------------------------------------------------------------------------
\* Waypoint.is_too_similar_to_other, lines 97-137
\* ------------------------------------------------------------------------
\* GotoWaypoint, lines 33-38
Z_CONTROL_NONE == 0
Z_CONTROL_DEPTH == 1
Z_CONTROL_ALTITUDE == 2
SPEED_CONTROL_NONE == 0
SPEED_CONTROL_RPM == 1
SPEED_CONTROL_SPEED == 2

\* lines 102-104. Lengths and speeds are counted in tenths (of a metre, of a
\* metre per second), so that 0.6 is 6 and 0.1 is 1; rpm are counted in rpm.
z_tolerance == 6
rpm_tolerance == 50
speed_tolerance == 1

Min(a, b) == IF a <= b THEN a ELSE b

\* math.sqrt(dx**2 + dy**2) < tol, lines 131-132: for tol > 0 the same as
\* dx**2 + dy**2 < tol**2, and false for tol <= 0, a square root being >= 0
XyTooClose(dx, dy, tol) == tol > 0 /\ dx * dx + dy * dy < tol * tol

\* self.is_too_similar_to_other(other_wp); wp is self.wp, with self.x and
\* self.y (lines 143-149) as its x and y
is_too_similar_to_other(wp, other_wp) ==
    LET xy_tolerance == Min(wp.goal_tolerance, other_wp.goal_tolerance)
        \* lines 115-120: set in the two modes that command a value, else
        \* left at the False of line 107
        z_too_close ==
            IF wp.z_control_mode = Z_CONTROL_DEPTH
            THEN Abs(wp.travel_depth - other_wp.travel_depth) < z_tolerance
            ELSE IF wp.z_control_mode = Z_CONTROL_ALTITUDE
            THEN Abs(wp.travel_altitude - other_wp.travel_altitude) < z_tolerance
            ELSE FALSE
        \* lines 125-129, else the False of line 108
        speed_too_close ==
            IF wp.speed_control_mode = SPEED_CONTROL_RPM
            THEN Abs(wp.travel_rpm - other_wp.travel_rpm) < rpm_tolerance
            ELSE IF wp.speed_control_mode = SPEED_CONTROL_SPEED
            THEN Abs(wp.travel_speed - other_wp.travel_speed) < speed_tolerance
            ELSE FALSE
        xy_too_close == XyTooClose(wp.x - other_wp.x, wp.y - other_wp.y, xy_tolerance)
    IN  IF wp.z_control_mode # other_wp.z_control_mode THEN FALSE
        ELSE IF wp.speed_control_mode # other_wp.speed_control_mode THEN FALSE
        ELSE xy_too_close /\ z_too_close /\ speed_too_close

\* the waypoints compared: every mode, and values on both sides of each
\* threshold
GotoWaypoints(xs, ys, depths, altitudes, rpms, speeds) ==
    [x : xs, y : ys, goal_tolerance : {1, 2},
     z_control_mode : {Z_CONTROL_NONE, Z_CONTROL_DEPTH, Z_CONTROL_ALTITUDE},
     travel_depth : depths, travel_altitude : altitudes,
     speed_control_mode : {SPEED_CONTROL_NONE, SPEED_CONTROL_RPM, SPEED_CONTROL_SPEED},
     travel_rpm : rpms, travel_speed : speeds]

call_is_too_similar_to_other ==
    /\ sim_pc = "called"
    /\ sim_ret' = is_too_similar_to_other(sim_self, sim_other)
    /\ sim_pc' = "returned"
    /\ UNCHANGED <<sim_self, sim_other, ptl_pc, plan_frame, path_msg, ptl_ret,
                   waypoints, trackerVars, planVars, dubinsVars>>

\* no plan is being tracked
TrackerIdle ==
    /\ waypoints = <<>>
    /\ waypoint_man_ids = <<>>
    /\ current_wp_index = -1
    /\ history = <<>>

SimilarInit ==
    /\ sim_pc = "called"
    /\ sim_self \in GotoWaypoints({0}, {0}, {0}, {0}, {0}, {0})
    /\ sim_other \in GotoWaypoints(0..MaxCoord, 0..1, {0, z_tolerance},
                                    {0, z_tolerance}, {0, rpm_tolerance},
                                    {0, speed_tolerance})
    /\ sim_ret = FALSE
    /\ ptl_pc = "idle"
    /\ plan_frame = "utm"
    /\ path_msg = <<>>
    /\ ptl_ret = <<>>
    /\ TrackerIdle
    /\ PlanIdle
    /\ DubinsIdle

SimilarNext == call_is_too_similar_to_other

SimilarSpec == SimilarInit /\ [][SimilarNext]_vars

\* ------------------------------------------------------------------------
\* MissionPlan.path_to_list, lines 519-533
\* ------------------------------------------------------------------------
\* header.frame_id of a path message; '' is a path that carries no frame tag
FrameIds == {"", "utm", "map"}
\* auv_config.UTM_LINK, line 234
PlanFrames == {"utm", "map"}

\* geometry_msgs/PoseStamped: a position and an orientation
PoseStampeds ==
    [position : [x : 0..1, y : {2}, z : 0..1], orientation : {"w"}]
PathMsgs ==
    [frame_id : FrameIds, poses : SeqsUpTo(PoseStampeds, MaxPoses)]

\* lines 525-533
PoseTuples(poses) ==
    [k \in 1..Len(poses) |->
        <<poses[k].position.x, poses[k].position.y, poses[k].position.z>>]

\* a conversion that takes the declared frame only
path_to_list_declared_only(frame, msg) ==
    IF msg.frame_id # frame THEN <<>> ELSE PoseTuples(msg.poses)

\* self.path_to_list(path_msg), with self.plan_frame as frame
path_to_list(frame, msg) ==
    IF msg.frame_id # "" /\ msg.frame_id # frame THEN <<>>
    ELSE PoseTuples(msg.poses)

call_path_to_list ==
    /\ ptl_pc = "called"
    /\ ptl_ret' = path_to_list(plan_frame, path_msg)
    /\ ptl_pc' = "returned"
    /\ UNCHANGED <<plan_frame, path_msg, sim_pc, sim_self, sim_other, sim_ret,
                   waypoints, trackerVars, planVars, dubinsVars>>

PathInit ==
    /\ ptl_pc = "called"
    /\ plan_frame \in PlanFrames
    /\ path_msg \in PathMsgs
    /\ ptl_ret = <<>>
    /\ sim_pc = "idle"
    /\ sim_self = <<>>
    /\ sim_other = <<>>
    /\ sim_ret = FALSE
    /\ TrackerIdle
    /\ PlanIdle
    /\ DubinsIdle

PathNext == call_path_to_list

PathSpec == PathInit /\ [][PathNext]_vars

\* ------------------------------------------------------------------------
\* Claims about the densifier
\* ------------------------------------------------------------------------
\* the original mission has Len(d_path) waypoints, waypoints_yaw[1..]
FirstWpPos == WpPos(1)
LastWpPos == WpPos(Len(d_path))

\* C9: the densified mission contains the first and the last waypoint of the
\* original mission, each at its original position.
C9_EndpointsKept ==
    dpc = "done" =>
        /\ \E n \in 1..Len(MissionWaypoints) : MissionWaypoints[n].pos = FirstWpPos
        /\ \E n \in 1..Len(MissionWaypoints) : MissionWaypoints[n].pos = LastWpPos

\* C10: the densified mission has one waypoint per selected sample, in
\* ascending order of the samples' indices in the full path, the n-th carrying
\* the position and heading of the n-th selected sample.
C10_OutputIsSelection ==
    dpc = "done" =>
        /\ Len(MissionWaypoints) = Len(d_order)
        /\ \A n \in 1..(Len(d_order) - 1) : d_order[n] <= d_order[n + 1]
        /\ \A n \in 1..Len(d_order) :
               /\ MissionWaypoints[n].pos = FullPath(d_path)[d_order[n]][1]
               /\ MissionWaypoints[n].psi = FullPath(d_path)[d_order[n]][2]

\* ------------------------------------------------------------------------
\* Claims about construction and plan-database decoding
\* ------------------------------------------------------------------------
BothProbesFailed == Len(init_probe) = 2 /\ ~init_probe[2].ok

\* C2: when the probes of both endpoints fail, construction from a
\* plan-database message does not fail: no_service is true and the plan is
\* returned with no waypoints.
C2_NoServiceEmptyPlan ==
    BothProbesFailed =>
        /\ pc # "raised"
        /\ exc = None
        /\ no_service
        /\ (pc = "ready" => waypoints = <<>>)

\* C3: latlon_to_utm and utm_to_latlon, called without a handle while the
\* endpoint cannot be reached, return (None, None) and do not raise.
C3_UnavailableResult ==
    conv_ret # <<>> /\ conv_ret[1].out = "timeout" =>
        conv_ret[1].exc = None /\ conv_ret[1].ret = NoneNone

\* C6 (as stated): once a construction has probed the endpoints, no later
\* construction and no later conversion probes again.
C6_ResolvedOnce == [][resolutions >= 1 => probed' = <<>>]_vars

\* the conversions a completed pass over maneuver i makes
ConversionsOf(i) ==
    IF plandb[i].kind \in {"goto", "sample"} THEN 1
    ELSE IF plandb[i].kind = "other" \/ ~cov_known THEN 0
    ELSE IF plandb[i].nverts > 2 THEN plandb[i].nverts + 1
    ELSE 1

\* C6 (amended): every construction probes the primary endpoint and, only if
\* that probe fails, the fallback, and keeps the name it ends on in that plan;
\* every latlon_to_utm without a handle, in decoding or called directly,
\* probes the plan's endpoint again, once per conversion, and leaves the name
\* unchanged; utm_to_latlon raises before it reaches a probe.
C6_ProbesEveryTime ==
    [][/\ (pc = "idle" /\ pc' # "idle" =>
              /\ probed' = (IF init_probe'[1].ok THEN <<Primary>>
                            ELSE <<Primary, Alternative>>)
              /\ latlontoutm_service_name' = probed'[Len(probed')])
       /\ (pc = "read_plandb" /\ Len(log') > Len(log) =>
              /\ latlontoutm_service_name' = latlontoutm_service_name
              /\ \A k \in 1..Len(probed') : probed'[k] = latlontoutm_service_name
              /\ Len(probed') <= ConversionsOf(man_i)
              /\ (exc' = None => Len(probed') = ConversionsOf(man_i))
              /\ (exc' # None => Len(probed') >= 1))
       /\ (pc = "ready" /\ pc' = "ready" /\ conv_ret' # conv_ret =>
              /\ latlontoutm_service_name' = latlontoutm_service_name
              /\ probed' = (IF conv_ret'[1].fn = "latlon_to_utm"
                            THEN <<latlontoutm_service_name>> ELSE <<>>))]_vars

\* a second construction has probed, and the conversions of its decoding probed again
C6_Witness ==
    /\ resolutions = 2
    /\ pc = "read_plandb"
    /\ Len(log) >= 1
    /\ Len(probed) >= 2

\* the waypoints the completed pass over maneuver i appended
Added(i) ==
    SubSeq(local_wps, log[i].from + 1,
           IF i < Len(log) THEN log[i + 1].from ELSE Len(local_wps))
\* the passes of the loop that ran to their end
Completed == {i \in 1..Len(log) : ~(pc = "raised" /\ i = Len(log))}
\* what the conversion of the anchor of maneuver i returned
AnchorPos(i) == IF log[i].anchor = "ok" THEN LatLonToUTM(Geo(i, 0)) ELSE NoneNone

CoverShape(i) ==
    IF plandb[i].nverts <= 2
    THEN /\ Len(Added(i)) = 1
         /\ Added(i)[1].man = i
         /\ Added(i)[1].pos = AnchorPos(i)
         /\ Added(i)[1].name = CoverName(i, 1, 1)
         /\ Added(i)[1].imc_man_id = "goto"
    ELSE /\ Len(log[i].gen) = 1
         /\ Len(Added(i)) = Len(log[i].gen[1])
         /\ \A k \in 1..Len(Added(i)) :
                /\ Added(i)[k].man = i
                /\ Added(i)[k].pos = log[i].gen[1][k]
                /\ Added(i)[k].name = CoverName(i, k, Len(log[i].gen[1]))
                /\ Added(i)[k].imc_man_id = "goto"

C8_FailedPointsDropped ==
    /\ \A k \in 1..Len(local_wps) : local_wps[k].pos # NoneNone
    /\ \A i \in 1..Len(log) :
           log[i].anchor \in {"timeout", "proxy_error"} => i \in Completed

\* the waypoints of the maneuvers of a known kind from maneuver i on, in
\* message order
RECURSIVE KnownKindWaypoints(_)
KnownKindWaypoints(i) ==
    IF i > Len(log) THEN <<>>
    ELSE (IF plandb[i].kind = "other" THEN <<>> ELSE Added(i))
         \o KnownKindWaypoints(i + 1)

\* C11: a maneuver of an unknown kind is skipped and the decoding goes on: its
\* pass converts nothing, appends nothing and never raises; the returned
\* sequence covers the whole message and is the concatenation, in message
\* order, of the waypoints of the goto, sample and cover-area maneuvers, each
\* waypoint carrying the identity of its own maneuver.
C11_UnknownKindsSkipped ==
    /\ \A i \in 1..Len(log) :
           plandb[i].kind = "other" =>
               /\ i \in Completed
               /\ Added(i) = <<>>
               /\ log[i].anchor = "unused"
    /\ pc = "ready" =>
           /\ Len(log) = Len(plandb)
           /\ waypoints = KnownKindWaypoints(1)
           /\ \A k \in 1..Len(waypoints) :
                  /\ waypoints[k].man \in 1..Len(plandb)
                  /\ plandb[waypoints[k].man].kind # "other"
                  /\ \A l \in k..Len(waypoints) : waypoints[k].man <= waypoints[l].man

\* a message with an unknown maneuver first was decoded to the waypoint of
\* the goto maneuver behind it
C11_Witness ==
    /\ pc = "ready"
    /\ Len(plandb) = 2
    /\ plandb[1].kind = "other"
    /\ plandb[2].kind = "goto"
    /\ Len(waypoints) = 1
    /\ waypoints[1].man = 2

\* ------------------------------------------------------------------------
\* Claims about the progress tracker
\* ------------------------------------------------------------------------
NumWps == Len(waypoints)
IsPeek(i) == history[i].op = "get_current_wp"
IsVisit(i) == history[i].op = "visit_wp"
\* the calls so far are: one get_current_wp, then exactly k visit_wp
PeekThenVisits(k) ==
    /\ Len(history) = k + 1
    /\ IsPeek(1)
    /\ \A i \in 2..(k + 1) : IsVisit(i)
\* ... followed by one more get_current_wp
PeekVisitsPeek(k) ==
    /\ Len(history) = k + 2
    /\ IsPeek(1)
    /\ \A i \in 2..(k + 1) : IsVisit(i)
    /\ IsPeek(k + 2)

\* C1: on a fresh plan of N waypoints is_in_progress() is false; the first
\* get_current_wp returns waypoint 0 (which exists when N >= 1) and makes
\* is_in_progress() true; after N visit_wp calls following it is_complete()
\* is true and get_current_wp returns None.
C1_FreshPlanRun ==
    /\ (history = <<>> => ~is_in_progress)
    /\ (NumWps >= 1 /\ Len(history) >= 1 /\ IsPeek(1) => history[1].ret = waypoints[1])
    /\ (NumWps >= 1 /\ Len(history) = 1 /\ IsPeek(1) => is_in_progress)
    /\ (PeekThenVisits(NumWps) => is_complete)
    /\ (PeekVisitsPeek(NumWps) => is_complete /\ history[NumWps + 2].ret = None)

C1_Witness ==
    /\ NumWps >= 2
    /\ PeekVisitsPeek(NumWps)
    /\ history[1].ret = waypoints[1]
    /\ history[NumWps + 2].ret = None

\* C4: once the index equals N, visit_wp leaves the index unchanged,
\* get_current_wp returns None, and is_complete() stays true.
C4_CompleteIsTerminal ==
    [][current_wp_index = NumWps =>
          /\ current_wp_index' = current_wp_index
          /\ is_complete'
          /\ (history'[Len(history')].op = "get_current_wp"
                 => history'[Len(history')].ret = None)]_vars

\* a visit_wp and then a get_current_wp were both made on a complete plan
C4_Witness ==
    /\ NumWps >= 1
    /\ Len(history) >= 2
    /\ history[Len(history) - 1].op = "visit_wp"
    /\ history[Len(history) - 1].at = NumWps
    /\ history[Len(history)].op = "get_current_wp"
    /\ history[Len(history)].at = NumWps
    /\ current_wp_index = NumWps

\* C5: get_current_wp changes the index only from -1 to 0, and consecutive
\* get_current_wp calls all return the same waypoint or all return None.
C5_PeekFrame ==
    \A i \in 1..Len(history) :
        IsPeek(i) =>
            /\ (history[i].to # history[i].at =>
                    history[i].at = -1 /\ history[i].to = 0)
            /\ (i > 1 /\ IsPeek(i - 1) => history[i].ret = history[i - 1].ret)

\* C14: whatever get_current_wp and visit_wp calls were made, in whatever
\* order, the index is between -1 and N, is_complete() is true exactly when
\* the index is N, is_in_progress() is true exactly when 0 <= index < N, and
\* the two are never true together.
C14_IndexInvariants ==
    /\ -1 <= current_wp_index
    /\ current_wp_index <= NumWps
    /\ is_complete <=> current_wp_index = NumWps
    /\ is_in_progress <=> (0 <= current_wp_index /\ current_wp_index < NumWps)
    /\ ~(is_complete /\ is_in_progress)

\* visit_wp was called on the fresh plan, before any get_current_wp, and
\* later calls brought the plan to completion and went on
C14_Witness ==
    /\ NumWps >= 2
    /\ Len(history) > NumWps + 1
    /\ IsVisit(1)
    /\ history[1].at = -1
    /\ \E i \in 2..Len(history) : IsPeek(i)
    /\ IsVisit(Len(history))
    /\ history[Len(history)].at = NumWps
    /\ current_wp_index = NumWps

\* C15: get_current_wp never reads the waypoint list outside [0, N): no call
\* fails, and on a plan of zero waypoints every call returns None.
C15_PeekNeverFails ==
    \A i \in 1..Len(history) :
        IsPeek(i) =>
            /\ history[i].ret # IndexError
            /\ (NumWps = 0 => history[i].ret = None)

\* ------------------------------------------------------------------------
\* Claims about the comparison of waypoints
\* ------------------------------------------------------------------------
\* the value the vertical-control mode of a waypoint commands; in the mode
\* none no value is commanded, and two such waypoints differ by nothing
VerticalValue(wp) ==
    IF wp.z_control_mode = Z_CONTROL_DEPTH THEN wp.travel_depth
    ELSE IF wp.z_control_mode = Z_CONTROL_ALTITUDE THEN wp.travel_altitude
    ELSE 0
SpeedValue(wp) ==
    IF wp.speed_control_mode = SPEED_CONTROL_RPM THEN wp.travel_rpm
    ELSE IF wp.speed_control_mode = SPEED_CONTROL_SPEED THEN wp.travel_speed
    ELSE 0
SpeedThreshold(wp) ==
    IF wp.speed_control_mode = SPEED_CONTROL_RPM THEN rpm_tolerance ELSE speed_tolerance

\* C12: for two waypoints with equal vertical-control modes and equal
\* speed-control modes, the mode none included, is_too_similar_to_other
\* returns true exactly when the planar distance is below the smaller
\* tolerance, the vertical values differ by less than the vertical threshold
\* and the speed values differ by less than the threshold of the speed mode.
C12_SimilarIffAllClose ==
    (/\ sim_pc = "returned"
     /\ sim_self.z_control_mode = sim_other.z_control_mode
     /\ sim_self.speed_control_mode = sim_other.speed_control_mode)
    => (sim_ret <=>
           /\ XyTooClose(sim_self.x - sim_other.x, sim_self.y - sim_other.y,
                         Min(sim_self.goal_tolerance, sim_other.goal_tolerance))
           /\ Abs(VerticalValue(sim_self) - VerticalValue(sim_other)) < z_tolerance
           /\ Abs(SpeedValue(sim_self) - SpeedValue(sim_other))
                  < SpeedThreshold(sim_self))

\* ------------------------------------------------------------------------
\* Claims about the conversion of a path
\* ------------------------------------------------------------------------
\* the result has one entry per pose, in order, with the pose's position
Converted ==
    /\ Len(ptl_ret) = Len(path_msg.poses)
    /\ \A k \in 1..Len(ptl_ret) :
           /\ ptl_ret[k][1] = path_msg.poses[k].position.x
           /\ ptl_ret[k][2] = path_msg.poses[k].position.y
           /\ ptl_ret[k][3] = path_msg.poses[k].position.z

\* C13 as stated: path_to_list returns an empty result for every path whose
\* frame tag is not the plan's declared frame, and converts the poses, in
\* order and one entry per pose, only when the tag equals the declared frame.
C13_OnlyDeclaredFrame ==
    ptl_pc = "returned" =>
        /\ (path_msg.frame_id # plan_frame => ptl_ret = <<>>)
        /\ (path_msg.frame_id = plan_frame => Converted)

\* C13, amended: path_to_list returns an empty result for every path whose
\* frame tag is not empty and differs from the declared frame; it converts
\* the poses, in order and one entry per pose, when the tag equals the
\* declared frame and also when the path carries no tag at all.
C13_UntaggedPathConverted ==
    ptl_pc = "returned" =>
        IF path_msg.frame_id # "" /\ path_msg.frame_id # plan_frame
        THEN ptl_ret = <<>>
        ELSE Converted

\* a path without a frame tag came back converted, two distinct poses in order
C13_Witness ==
    /\ ptl_pc = "returned"
    /\ path_msg.frame_id = ""
    /\ Len(path_msg.poses) = 2
    /\ path_msg.poses[1] # path_msg.poses[2]
    /\ Len(ptl_ret) = 2
    /\ ptl_ret[1] # ptl_ret[2]

====
